---- MODULE Spec2Model ----
(***************************************************************************)
(* A model of flaml/tune/sample.py: the Domain classes (Float, Integer,    *)
(* Categorical), the samplers that are attached to them, the builder       *)
(* methods that copy a domain and attach a sampler, and sample().          *)
(*                                                                         *)
(* Numbers.  Integer domains hold Python ints, modelled as integers.       *)
(* Float domains hold floats, modelled as integers that count a fixed unit *)
(* (bounds, draws and quantization steps of one Float domain are all in    *)
(* the same unit, and only their ratios matter: Float(0, 10) quantized by  *)
(* 2.5 is lower 0, upper 8, q 2 in units of 1.25).  float("-inf") and      *)
(* float("inf") are the two extreme integers NegInf and PosInf, which      *)
(* order below and above every other value as the floats do; no            *)
(* arithmetic is ever done on them.                                        *)
(*                                                                         *)
(* Objects.  heap is the sequence of the Domain objects that exist; an     *)
(* object's identity is its index.  A sampler is a record; a Quantized     *)
(* sampler holds the sampler it wraps in its field sampler.                *)
(***************************************************************************)
EXTENDS Integers, Sequences, FiniteSets, TLC

VARIABLES heap, last

vars == <<heap, last>>

(***************************************************************************)
(* Bounds of the model.                                                    *)
(***************************************************************************)
\* the number of Domain objects alive at once
MaxDomains == 2
\* a Float range wider than this is drawn from near its two ends only
MaxSpan == 8

NegInf == -2147483647
PosInf == 2147483647

\* a bound so large that the relative tolerance of isclose spans a unit
Big == 2 * 1000000000 + 1

(***************************************************************************)
(* Samplers (lines 82-127, 131-168, 240-262, 309-316, 342-350).            *)
(***************************************************************************)
\* the class attribute Domain.sampler = None
None == [name |-> "None"]

Float_Uniform == [name |-> "Uniform", of |-> "Float"]

Float_LogUniform(base) == [name |-> "LogUniform", of |-> "Float", base |-> base]

Float_Normal(mean, sd) == [name |-> "Normal", of |-> "Float", mean |-> mean, sd |-> sd]

Integer_Uniform == [name |-> "Uniform", of |-> "Integer"]

Integer_LogUniform(base) == [name |-> "LogUniform", of |-> "Integer", base |-> base]

Categorical_Uniform == [name |-> "Uniform", of |-> "Categorical"]

Grid == [name |-> "Grid"]

Quantized(sampler, q) == [name |-> "Quantized", sampler |-> sampler, q |-> q]

\* Python truth of a sampler attribute: None is false, an instance is true
Truthy(sampler) == sampler # None

(***************************************************************************)
(* Domains.  An optional argument is <<>> (None) or <<v>>.                 *)
(***************************************************************************)
Float(lower, upper) ==
  [cls |-> "Float",
   lower |-> IF lower # <<>> THEN lower[1] ELSE NegInf,
   upper |-> IF upper # <<>> THEN upper[1] ELSE PosInf,
   sampler |-> None]

Integer(lower, upper) ==
  [cls |-> "Integer", lower |-> lower, upper |-> upper, sampler |-> None]

Categorical(categories) ==
  [cls |-> "Categorical", categories |-> categories, sampler |-> None]

default_sampler_cls(domain) ==
  CASE domain.cls = "Float" -> Float_Uniform
    [] domain.cls = "Integer" -> Integer_Uniform
    [] domain.cls = "Categorical" -> Categorical_Uniform

\* float(value) and int(value) of a value that is already a whole number of
\* the domain's unit keep the value; Categorical keeps Domain.cast
cast(domain, value) == value

get_sampler(domain) ==
  IF ~Truthy(domain.sampler) THEN default_sampler_cls(domain) ELSE domain.sampler

is_grid(domain) == domain.sampler.name = "Grid"

Range(seq) == {seq[i] : i \in DOMAIN seq}

is_valid(domain, value) ==
  IF domain.cls = "Categorical"
  THEN value \in Range(domain.categories)
  ELSE domain.lower <= value /\ value <= domain.upper

(***************************************************************************)
(* Arithmetic.                                                             *)
(***************************************************************************)
Abs(x) == IF x < 0 THEN -x ELSE x

Max(x, y) == IF x >= y THEN x ELSE y

\* round(a / b) for b > 0: the nearest integer, a tie going to the even one
\* (Python's round and numpy's round both round half to even)
Round(a, b) ==
  LET f == a \div b
      r == a % b
  IN  IF 2 * r < b THEN f
      ELSE IF 2 * r > b THEN f + 1
      ELSE IF f % 2 = 0 THEN f ELSE f + 1

\* math.isclose(bound / q, round(bound / q)) for q > 0: relative tolerance
\* 1e-09, absolute tolerance 0.  Both sides are multiplied by q; the
\* difference is a whole number, so it is within 1e-09 * m exactly when it
\* is at most m \div 10^9.
isclose_div(bound, q) ==
  LET n == Round(bound, q)
  IN  Abs(bound - n * q) <= Max(Abs(bound), Abs(n * q)) \div 1000000000

(***************************************************************************)
(* sample().  The random generators are choices: SampleOutcomes is the set *)
(* of everything one call can end in.  An outcome is a returned value      *)
(* (kind "value": a scalar when scalar is TRUE, else the sequence values), *)
(* a raised exception (kind "raise") or an exception object handed back as *)
(* the return value (kind "return_exc").                                   *)
(***************************************************************************)
Raised(exc) == [kind |-> "raise", exc |-> exc, scalar |-> FALSE, values |-> <<>>]

ReturnedExc(exc) == [kind |-> "return_exc", exc |-> exc, scalar |-> FALSE, values |-> <<>>]

\* `items if len(items) > 1 else domain.cast(items[0])` over every array of
\* size draws from the set draws
Items(draws, domain, size) ==
  IF size > 1
  THEN {[kind |-> "value", exc |-> "", scalar |-> FALSE, values |-> items] :
          items \in [1..size -> draws]}
  ELSE {[kind |-> "value", exc |-> "", scalar |-> TRUE,
         values |-> <<cast(domain, v)>>] : v \in draws}

\* np.random.uniform(low, high): a float in [low, high), taken on the unit
\* grid; a range wider than MaxSpan is drawn from near its two ends
UniformDraws(low, high) ==
  IF low = high THEN {low}
  ELSE IF high - low <= MaxSpan THEN low..(high - 1)
  ELSE {low, low + 1, high - 2, high - 1}

\* np.random.normal(mean, sd): any float; a few of them around the mean
NormalDraws(mean, sd) == {mean + k * sd : k \in -2..2}

\* a draw from the closed range [low, high]
RandintDraws_closed(low, high) == low..high

\* np.random.randint(low, high): an int in [low, high)
RandintDraws(low, high) == low..(high - 1)

\* np.round(base ** np.random.uniform(logmin, logmax)): a float in
\* [lower, upper) rounded to the nearest int
LogRoundDraws(lower, upper) == lower..upper

Float_Uniform_sample(domain, size) ==
  IF ~(domain.lower > NegInf) THEN {Raised("AssertionError")}
  ELSE IF ~(domain.upper < PosInf) THEN {Raised("AssertionError")}
  ELSE Items(UniformDraws(domain.lower, domain.upper), domain, size)

Float_LogUniform_sample(domain, size) ==
  IF ~(domain.lower > 0) THEN {Raised("AssertionError")}
  ELSE IF ~(0 < domain.upper /\ domain.upper < PosInf) THEN {Raised("AssertionError")}
  ELSE Items(UniformDraws(domain.lower, domain.upper), domain, size)

Float_Normal_sample(sampler, domain, size) ==
  IF ~(domain.lower = 0 \/ domain.lower = NegInf) THEN {Raised("AssertionError")}
  ELSE IF ~(domain.upper = 0 \/ domain.upper = PosInf) THEN {Raised("AssertionError")}
  ELSE Items(NormalDraws(sampler.mean, sampler.sd), domain, size)

Integer_Uniform_sample(domain, size) ==
  IF domain.lower >= domain.upper THEN {Raised("ValueError")}
  ELSE Items(RandintDraws(domain.lower, domain.upper), domain, size)

Integer_LogUniform_sample(domain, size) ==
  IF ~(domain.lower > 0) THEN {Raised("AssertionError")}
  ELSE IF ~(0 < domain.upper /\ domain.upper < PosInf) THEN {Raised("AssertionError")}
  ELSE Items(LogRoundDraws(domain.lower, domain.upper), domain, size)

Categorical_Uniform_sample(domain, size) ==
  IF domain.categories = <<>> THEN {Raised("IndexError")}
  ELSE Items(Range(domain.categories), domain, size)

Grid_sample(domain, size) == {ReturnedExc("RuntimeError")}

\* np.round(np.divide(values, q)), not multiplied by q again
Quantized_apply_unscaled(o, q, domain) ==
  CASE o.kind = "raise" -> o
    [] o.kind = "return_exc" -> Raised("TypeError")
    [] o.kind = "value" ->
         [o EXCEPT !.values = [i \in DOMAIN o.values |-> Round(o.values[i], q)]]

\* np.round(np.divide(values, q)) * q of one outcome of the wrapped sampler:
\* a scalar is cast, an array becomes a list; an exception object cannot be
\* divided
Quantized_apply(o, q, domain) ==
  CASE o.kind = "raise" -> o
    [] o.kind = "return_exc" -> Raised("TypeError")
    [] o.kind = "value" ->
         [o EXCEPT !.values =
            [i \in DOMAIN o.values |->
               IF o.scalar THEN cast(domain, Round(o.values[i], q) * q)
               ELSE Round(o.values[i], q) * q]]

RECURSIVE SampleOutcomes(_, _, _)
SampleOutcomes(sampler, domain, size) ==
  CASE sampler.name = "Quantized" ->
         {Quantized_apply(o, sampler.q, domain) :
            o \in SampleOutcomes(sampler.sampler, domain, size)}
    [] sampler.name = "Grid" -> Grid_sample(domain, size)
    [] sampler.name = "Normal" -> Float_Normal_sample(sampler, domain, size)
    [] sampler.name = "Uniform" /\ sampler.of = "Float" -> Float_Uniform_sample(domain, size)
    [] sampler.name = "Uniform" /\ sampler.of = "Integer" -> Integer_Uniform_sample(domain, size)
    [] sampler.name = "Uniform" /\ sampler.of = "Categorical" ->
         Categorical_Uniform_sample(domain, size)
    [] sampler.name = "LogUniform" /\ sampler.of = "Float" ->
         Float_LogUniform_sample(domain, size)
    [] sampler.name = "LogUniform" /\ sampler.of = "Integer" ->
         Integer_LogUniform_sample(domain, size)

\* Domain.sample: the attached sampler, or a fresh default one
sample(domain, size) == SampleOutcomes(get_sampler(domain), domain, size)

(***************************************************************************)
(* Methods that act on objects.  Each takes the heap and the receiver's    *)
(* index and yields [heap, exc, ret]: the heap afterwards, the exception   *)
(* raised ("" when the call returns) and the index of the returned object. *)
(* An object that only a failed call held is dropped with the call.        *)
(***************************************************************************)
ErrSamplerSet == "ValueError: You can only choose one sampler for parameter domains"
ErrUniformLower == "ValueError: Uniform requires a lower bound"
ErrUniformUpper == "ValueError: Uniform requires a upper bound"
ErrLogLower == "ValueError: LogUniform requires a lower bound greater than 0"
ErrLogUpper == "ValueError: LogUniform requires a upper bound greater than 0"
ErrQuantLower == "ValueError: Your lower variable bound is not divisible by quantization factor"
ErrQuantUpper == "ValueError: Your upper variable bound is not divisible by quantization factor"
ErrBase == "AssertionError: Base has to be strictly greater than 0"
ErrSD == "AssertionError: SD has to be strictly greater than 0"

Returns(h, ret) == [heap |-> h, exc |-> "", ret |-> ret]

Raises(h, exc) == [heap |-> h, exc |-> exc, ret |-> 0]

\* `new = self`: the receiver itself, no copy
copy_alias(h, self) == [heap |-> h, ref |-> self]

\* new = copy(self): a new object with the receiver's attributes
copy(h, self) == [heap |-> Append(h, h[self]), ref |-> Len(h) + 1]

\* set_sampler without the check of an existing sampler
set_sampler_unchecked(h, self, sampler, allow_override) ==
  Returns([h EXCEPT ![self].sampler = sampler], self)

set_sampler(h, self, sampler, allow_override) ==
  IF Truthy(h[self].sampler) /\ ~allow_override
  THEN Raises(h, ErrSamplerSet)
  ELSE Returns([h EXCEPT ![self].sampler = sampler], self)

\* `new = copy(self); new.set_sampler(sampler, allow_override); return new`
CopyAndSet(h, self, sampler, allow_override) ==
  LET c == copy(h, self)
      r == set_sampler(c.heap, c.ref, sampler, allow_override)
  IN  IF r.exc # "" THEN Raises(h, r.exc) ELSE Returns(r.heap, c.ref)

Float_uniform(h, self) ==
  IF ~(h[self].lower > NegInf) THEN Raises(h, ErrUniformLower)
  ELSE IF ~(h[self].upper < PosInf) THEN Raises(h, ErrUniformUpper)
  ELSE CopyAndSet(h, self, Float_Uniform, FALSE)

Float_loguniform(h, self, base) ==
  IF ~(h[self].lower > 0) THEN Raises(h, ErrLogLower)
  ELSE IF ~(0 < h[self].upper /\ h[self].upper < PosInf) THEN Raises(h, ErrLogUpper)
  ELSE IF ~(base > 0) THEN Raises(h, ErrBase)
  ELSE CopyAndSet(h, self, Float_LogUniform(base), FALSE)

Float_normal(h, self, mean, sd) ==
  IF ~(sd > 0) THEN Raises(h, ErrSD)
  ELSE CopyAndSet(h, self, Float_Normal(mean, sd), FALSE)

\* quantized() that checks the lower bound only
Float_quantized_lower_only(h, self, q) ==
  IF h[self].lower > NegInf /\ ~isclose_div(h[self].lower, q)
  THEN Raises(h, ErrQuantLower)
  ELSE CopyAndSet(h, self, Quantized(get_sampler(h[self]), q), TRUE)

Float_quantized(h, self, q) ==
  IF h[self].lower > NegInf /\ ~isclose_div(h[self].lower, q)
  THEN Raises(h, ErrQuantLower)
  ELSE IF h[self].upper < PosInf /\ ~isclose_div(h[self].upper, q)
  THEN Raises(h, ErrQuantUpper)
  ELSE CopyAndSet(h, self, Quantized(get_sampler(h[self]), q), TRUE)

\* quantized() that replaces an existing Quantized wrapper by the new one
Integer_quantized_replacing(h, self, q) ==
  LET s == get_sampler(h[self])
  IN  CopyAndSet(h, self,
                 Quantized(IF s.name = "Quantized" THEN s.sampler ELSE s, q), TRUE)

Integer_quantized(h, self, q) ==
  CopyAndSet(h, self, Quantized(get_sampler(h[self]), q), TRUE)

Integer_uniform(h, self) == CopyAndSet(h, self, Integer_Uniform, FALSE)

Integer_loguniform(h, self, base) ==
  IF ~(h[self].lower > 0) THEN Raises(h, ErrLogLower)
  ELSE IF ~(0 < h[self].upper /\ h[self].upper < PosInf) THEN Raises(h, ErrLogUpper)
  ELSE IF ~(base > 0) THEN Raises(h, ErrBase)
  ELSE CopyAndSet(h, self, Integer_LogUniform(base), FALSE)

Categorical_uniform(h, self) == CopyAndSet(h, self, Categorical_Uniform, FALSE)

(***************************************************************************)
(* The convenience constructors (lines 388-492): each builds a domain and  *)
(* chains builder calls on it.  Then(r, F) is `r.F(...)`: F applied to the *)
(* object r returned, nothing when r raised.                               *)
(***************************************************************************)
New(domain) == Returns(<<domain>>, 1)

uniform(lower, upper) ==
  LET a == New(Float(<<lower>>, <<upper>>))
  IN  Float_uniform(a.heap, a.ret)

quniform(lower, upper, q) ==
  LET a == uniform(lower, upper)
  IN  IF a.exc # "" THEN a ELSE Float_quantized(a.heap, a.ret, q)

loguniform(lower, upper, base) ==
  LET a == New(Float(<<lower>>, <<upper>>))
  IN  Float_loguniform(a.heap, a.ret, base)

qloguniform(lower, upper, q, base) ==
  LET a == loguniform(lower, upper, base)
  IN  IF a.exc # "" THEN a ELSE Float_quantized(a.heap, a.ret, q)

choice(categories) ==
  LET a == New(Categorical(categories))
  IN  Categorical_uniform(a.heap, a.ret)

randint(lower, upper) ==
  LET a == New(Integer(lower, upper))
  IN  Integer_uniform(a.heap, a.ret)

lograndint(lower, upper, base) ==
  LET a == New(Integer(lower, upper))
  IN  Integer_loguniform(a.heap, a.ret, base)

qrandint(lower, upper, q) ==
  LET a == randint(lower, upper)
  IN  IF a.exc # "" THEN a ELSE Integer_quantized(a.heap, a.ret, q)

qlograndint(lower, upper, q, base) ==
  LET a == lograndint(lower, upper, base)
  IN  IF a.exc # "" THEN a ELSE Integer_quantized(a.heap, a.ret, q)

randn(mean, sd) ==
  LET a == New(Float(<<>>, <<>>))
  IN  Float_normal(a.heap, a.ret, mean, sd)

qrandn(mean, sd, q) ==
  LET a == randn(mean, sd)
  IN  IF a.exc # "" THEN a ELSE Float_quantized(a.heap, a.ret, q)

(***************************************************************************)
(* State.  last records the latest call: the method, the receiver, its     *)
(* arguments, the exception raised ("" if none), the object returned and,  *)
(* for sample(), the outcome.                                              *)
(***************************************************************************)
NoOut == [kind |-> "none", exc |-> "", scalar |-> FALSE, values |-> <<>>]

Call(op, self, q, override, size, exc, ret, out) ==
  [op |-> op, self |-> self, q |-> q, override |-> override, size |-> size,
   exc |-> exc, ret |-> ret, out |-> out]

NoCall == Call("", 0, 0, FALSE, 0, "", 0, NoOut)

\* the arguments the calls are made with
FloatLowers == {<<>>, <<0>>, <<3>>}
FloatUppers == {<<>>, <<0>>, <<4>>, <<6>>, <<Big>>}
IntegerBounds == {-2, 0, 3, 6}
CategoryLists == {<<>>, <<7>>, <<1, 2>>}
QSteps == {2, 3}
Bases == {0, 10}
Means == {0}
SDs == {0, 1}
Sizes == {1, 2}

FloatDomains ==
  {Float(lo, hi) : lo \in FloatLowers, hi \in FloatUppers}

IntegerDomains ==
  {Integer(lo, hi) : lo \in IntegerBounds, hi \in IntegerBounds}

Ordered(S) == {d \in S : d.lower <= d.upper}

\* the state after construction: one domain, no sampler attached
Init ==
  /\ \/ \E d \in Ordered(FloatDomains) : heap = <<d>>
     \/ \E d \in Ordered(IntegerDomains) : heap = <<d>>
     \/ \E c \in CategoryLists : heap = <<Categorical(c)>>
  /\ last = NoCall

\* a builder call that returned r
Built(op, self, q, r) ==
  /\ r.exc = "" => Len(r.heap) <= MaxDomains
  /\ heap' = r.heap
  /\ last' = Call(op, self, q, FALSE, 0, r.exc, r.ret, NoOut)

SetSampler(self, allow_override) ==
  LET r == set_sampler(heap, self, Grid, allow_override)
  IN  /\ heap' = r.heap
      /\ last' = Call("set_sampler", self, 0, allow_override, 0, r.exc, 0, NoOut)

FloatUniform(self) ==
  /\ heap[self].cls = "Float"
  /\ Built("uniform", self, 0, Float_uniform(heap, self))

FloatLoguniform(self, base) ==
  /\ heap[self].cls = "Float"
  /\ Built("loguniform", self, 0, Float_loguniform(heap, self, base))

FloatNormal(self, mean, sd) ==
  /\ heap[self].cls = "Float"
  /\ Built("normal", self, 0, Float_normal(heap, self, mean, sd))

FloatQuantized(self, q) ==
  /\ heap[self].cls = "Float"
  /\ Built("quantized", self, q, Float_quantized(heap, self, q))

IntegerUniform(self) ==
  /\ heap[self].cls = "Integer"
  /\ Built("uniform", self, 0, Integer_uniform(heap, self))

IntegerLoguniform(self, base) ==
  /\ heap[self].cls = "Integer"
  /\ Built("loguniform", self, 0, Integer_loguniform(heap, self, base))

IntegerQuantized(self, q) ==
  /\ heap[self].cls = "Integer"
  /\ Built("quantized", self, q, Integer_quantized(heap, self, q))

CategoricalUniform(self) ==
  /\ heap[self].cls = "Categorical"
  /\ Built("uniform", self, 0, Categorical_uniform(heap, self))

Sample(self, size) ==
  \E o \in sample(heap[self], size) :
    /\ heap' = heap
    /\ last' = Call("sample", self, 0, FALSE, size, "", 0, o)

Next ==
  \/ \E self \in DOMAIN heap, allow_override \in BOOLEAN : SetSampler(self, allow_override)
  \/ \E self \in DOMAIN heap : FloatUniform(self)
  \/ \E self \in DOMAIN heap, base \in Bases : FloatLoguniform(self, base)
  \/ \E self \in DOMAIN heap, mean \in Means, sd \in SDs : FloatNormal(self, mean, sd)
  \/ \E self \in DOMAIN heap, q \in QSteps : FloatQuantized(self, q)
  \/ \E self \in DOMAIN heap : IntegerUniform(self)
  \/ \E self \in DOMAIN heap, base \in Bases : IntegerLoguniform(self, base)
  \/ \E self \in DOMAIN heap, q \in QSteps : IntegerQuantized(self, q)
  \/ \E self \in DOMAIN heap : CategoricalUniform(self)
  \/ \E self \in DOMAIN heap, size \in Sizes : Sample(self, size)

Spec == Init /\ [][Next]_vars

(***************************************************************************)
(* A second specification: one domain is built by a constructor, a class   *)
(* or a convenience function, and only the object it returns is kept; it   *)
(* may then be quantized (again) and sampled.                              *)
(***************************************************************************)
ConvFloats == {0, 3, 6, 8}
ConvIntegers == {-2, 0, 1, 3, 4, 6}
ConvQSteps == {1, 2, 3}
ConvBases == {10}
ConvSDs == {1}

InitConv ==
  /\ heap = <<>>
  /\ last = NoCall

\* a constructor call that ended as r: the caller keeps the returned object
Constructed(op, q, r) ==
  /\ heap = <<>>
  /\ heap' = IF r.exc = "" THEN <<r.heap[r.ret]>> ELSE <<>>
  /\ last' = Call(op, 0, q, FALSE, 0, r.exc, IF r.exc = "" THEN 1 ELSE 0, NoOut)

NewFloat(lower, upper) == Constructed("Float", 0, New(Float(lower, upper)))

NewInteger(lower, upper) == Constructed("Integer", 0, New(Integer(lower, upper)))

NewCategorical(categories) == Constructed("Categorical", 0, New(Categorical(categories)))

Uniform(lower, upper) == Constructed("uniform", 0, uniform(lower, upper))

Quniform(lower, upper, q) == Constructed("quniform", q, quniform(lower, upper, q))

Loguniform(lower, upper, base) == Constructed("loguniform", 0, loguniform(lower, upper, base))

Qloguniform(lower, upper, q, base) ==
  Constructed("qloguniform", q, qloguniform(lower, upper, q, base))

Choice(categories) == Constructed("choice", 0, choice(categories))

Randint(lower, upper) == Constructed("randint", 0, randint(lower, upper))

Lograndint(lower, upper, base) == Constructed("lograndint", 0, lograndint(lower, upper, base))

Qrandint(lower, upper, q) == Constructed("qrandint", q, qrandint(lower, upper, q))

Qlograndint(lower, upper, q, base) ==
  Constructed("qlograndint", q, qlograndint(lower, upper, q, base))

Randn(mean, sd) == Constructed("randn", 0, randn(mean, sd))

Qrandn(mean, sd, q) == Constructed("qrandn", q, qrandn(mean, sd, q))

NextConv ==
  \/ \E lo \in FloatLowers, hi \in FloatUppers :
       /\ Float(lo, hi).lower <= Float(lo, hi).upper
       /\ NewFloat(lo, hi)
  \/ \E lo, hi \in ConvIntegers : lo <= hi /\ NewInteger(lo, hi)
  \/ \E c \in CategoryLists : NewCategorical(c)
  \/ \E lo, hi \in ConvFloats : lo <= hi /\ Uniform(lo, hi)
  \/ \E lo, hi \in ConvFloats, q \in ConvQSteps : lo <= hi /\ Quniform(lo, hi, q)
  \/ \E lo, hi \in ConvFloats, base \in ConvBases : lo <= hi /\ Loguniform(lo, hi, base)
  \/ \E lo, hi \in ConvFloats, q \in ConvQSteps, base \in ConvBases :
       lo <= hi /\ Qloguniform(lo, hi, q, base)
  \/ \E c \in CategoryLists : Choice(c)
  \/ \E lo, hi \in ConvIntegers : lo <= hi /\ Randint(lo, hi)
  \/ \E lo, hi \in ConvIntegers, base \in ConvBases : lo <= hi /\ Lograndint(lo, hi, base)
  \/ \E lo, hi \in ConvIntegers, q \in ConvQSteps : lo <= hi /\ Qrandint(lo, hi, q)
  \/ \E lo, hi \in ConvIntegers, q \in ConvQSteps, base \in ConvBases :
       lo <= hi /\ Qlograndint(lo, hi, q, base)
  \/ \E mean \in Means, sd \in ConvSDs : Randn(mean, sd)
  \/ \E mean \in Means, sd \in ConvSDs, q \in ConvQSteps : Qrandn(mean, sd, q)
  \/ \E self \in DOMAIN heap, q \in ConvQSteps : FloatQuantized(self, q)
  \/ \E self \in DOMAIN heap, q \in ConvQSteps : IntegerQuantized(self, q)
  \/ \E self \in DOMAIN heap, size \in Sizes : Sample(self, size)

SpecConv == InitConv /\ [][NextConv]_vars

(***************************************************************************)
(* Properties.                                                             *)
(***************************************************************************)
BuilderOps == {"uniform", "loguniform", "normal", "quantized"}

Finite(b) == b > NegInf /\ b < PosInf

\* the receiver of the latest call
Receiver == heap[last.self]

\* C1: when a sampler is already attached to the receiver, set_sampler
\* without allow_override, and so each of uniform(), loguniform() and
\* normal(), raises, and no object is changed or created.
C1_SecondSamplerRejected ==
  [][(/\ \/ last'.op \in {"uniform", "loguniform", "normal"}
         \/ last'.op = "set_sampler" /\ ~last'.override
      /\ Truthy(heap[last'.self].sampler))
     => last'.exc # "" /\ heap' = heap]_vars

\* Float(3, 6).uniform().loguniform() has failed on the attached sampler
C1_Witness ==
  /\ last.op = "loguniform"
  /\ last.exc = ErrSamplerSet
  /\ Receiver.sampler = Float_Uniform

\* C2: a builder call, failed or not, and a sample() call leave every
\* existing object as it was; a successful builder returns a new object
\* that is the receiver's copy with a sampler attached.
C2_ReceiverUnchanged ==
  [][last'.op \in BuilderOps \cup {"sample"} =>
       /\ \A i \in DOMAIN heap : i \in DOMAIN heap' /\ heap'[i] = heap[i]
       /\ IF last'.op \in BuilderOps /\ last'.exc = ""
          THEN /\ Len(heap') = Len(heap) + 1
               /\ last'.ret = Len(heap) + 1
               /\ Truthy(heap'[last'.ret].sampler)
               /\ [heap'[last'.ret] EXCEPT !.sampler = heap[last'.self].sampler]
                    = heap[last'.self]
          ELSE heap' = heap]_vars

\* a builder returned object 2 with a sampler, object 1 still has none
C2_Witness ==
  /\ last.op \in BuilderOps
  /\ last.exc = ""
  /\ last.self = 1
  /\ last.ret = 2
  /\ ~Truthy(heap[1].sampler)
  /\ Truthy(heap[2].sampler)

\* C3: sample() on a domain whose sampler is a Grid ends in a raised error
\* and returns nothing to the caller.
C3_GridSampleRaises ==
  last.op = "sample" /\ is_grid(Receiver) => last.out.kind = "raise"

\* C4: normal() on a Float with a finite lower or upper bound fails, and no
\* Float with a Normal sampler and a finite bound exists.
C4_NormalNeedsUnbounded ==
  /\ last.op = "normal" /\ (Receiver.lower # NegInf \/ Receiver.upper # PosInf)
       => last.exc # ""
  /\ \A i \in DOMAIN heap :
       heap[i].cls = "Float" /\ heap[i].sampler.name = "Normal"
         => heap[i].lower = NegInf /\ heap[i].upper = PosInf

\* C5: every value sampled from an Integer domain with lower < upper whose
\* sampler is Integer's Uniform, attached or the default, is at least lower
\* and less than upper.
C5_IntegerUniformHalfOpen ==
  /\ last.op = "sample"
  /\ Receiver.cls = "Integer"
  /\ get_sampler(Receiver) = Integer_Uniform
  /\ Receiver.lower < Receiver.upper
  => /\ last.out.kind = "value"
     /\ \A v \in Range(last.out.values) : Receiver.lower <= v /\ v < Receiver.upper

\* upper - 1 was drawn from Integer(lower, upper).uniform()
C5_Witness ==
  /\ last.op = "sample"
  /\ Receiver.cls = "Integer"
  /\ Receiver.sampler = Integer_Uniform
  /\ Receiver.lower < Receiver.upper
  /\ last.out.values = <<Receiver.upper - 1>>

\* the finite bounds of a Float or Integer domain
FiniteBounds(domain) == {b \in {domain.lower, domain.upper} : Finite(b)}

\* C6 as stated: Float.quantized(q) succeeds exactly when every finite
\* bound is an integer multiple of q.
C6_SucceedsIffExactMultiple ==
  last.op = "quantized" /\ Receiver.cls = "Float"
    => (last.exc = "" <=> \A b \in FiniteBounds(Receiver) : b % last.q = 0)

\* C6 as amended: Float.quantized(q) succeeds exactly when, for every finite
\* bound, bound / q is within the relative tolerance 1e-09 of
\* round(bound / q); otherwise it raises the not-divisible error and returns
\* no domain.
C6_SucceedsIffCloseToMultiple ==
  last.op = "quantized" /\ Receiver.cls = "Float"
    => /\ last.exc = "" <=> \A b \in FiniteBounds(Receiver) : isclose_div(b, last.q)
       /\ last.exc # "" => last.exc \in {ErrQuantLower, ErrQuantUpper} /\ last.ret = 0
       /\ last.exc = "" => heap[last.ret].sampler.name = "Quantized"

\* Float(3, 4).quantized(3) has failed on the upper bound alone
C6_Witness ==
  /\ last.op = "quantized"
  /\ Receiver.cls = "Float"
  /\ last.exc = ErrQuantUpper
  /\ Receiver.lower % last.q = 0

\* C7: every value sampled from a Float with finite bounds lower <= upper,
\* both multiples of q, and the sampler Quantized(Uniform, q) is a multiple
\* of q between lower and upper (for size 1, and for each element of a
\* larger sample).
C7_QuantizedOnGrid ==
  /\ last.op = "sample"
  /\ Receiver.cls = "Float"
  /\ Receiver.sampler.name = "Quantized"
  /\ Receiver.sampler.sampler = Float_Uniform
  /\ Finite(Receiver.lower) /\ Finite(Receiver.upper)
  /\ Receiver.lower <= Receiver.upper
  /\ Receiver.lower % Receiver.sampler.q = 0
  /\ Receiver.upper % Receiver.sampler.q = 0
  => /\ last.out.kind = "value"
     /\ \A v \in Range(last.out.values) :
          /\ v % Receiver.sampler.q = 0
          /\ Receiver.lower <= v /\ v <= Receiver.upper

\* quniform(0, 8, 2).sample() has returned the upper bound 8, rounded up
\* from a draw below it
C7_Witness ==
  /\ last.op = "sample"
  /\ last.size = 1
  /\ Receiver = [Float(<<0>>, <<8>>) EXCEPT !.sampler = Quantized(Float_Uniform, 2)]
  /\ last.out.values = <<8>>

\* C8: for an Integer domain with lower < upper and the sampler
\* Quantized(Uniform, q), q dividing both bounds, upper is one of the values
\* sample() can return.
C8_UpperInclusive ==
  \A i \in DOMAIN heap :
    /\ heap[i].cls = "Integer"
    /\ heap[i].sampler.name = "Quantized"
    /\ heap[i].sampler.sampler = Integer_Uniform
    /\ heap[i].lower < heap[i].upper
    /\ heap[i].lower % heap[i].sampler.q = 0
    /\ heap[i].upper % heap[i].sampler.q = 0
    => \E o \in sample(heap[i], 1) :
         o.kind = "value" /\ o.values = <<heap[i].upper>>

\* the sampler under every Quantized wrapper
RECURSIVE Unwrapped(_)
Unwrapped(sampler) ==
  IF sampler.name = "Quantized" THEN Unwrapped(sampler.sampler) ELSE sampler

\* C9 as stated: quantized(q) never raises the one-sampler error, and the
\* object it returns carries a single Quantized of step q around the base
\* sampler of the receiver (the default one if none is attached), any
\* Quantized wrapper of the receiver being replaced.
C9_QuantizedReplacesWrapper ==
  [][last'.op = "quantized" =>
       /\ last'.exc # ErrSamplerSet
       /\ last'.exc = "" =>
            heap'[last'.ret].sampler
              = Quantized(Unwrapped(get_sampler(heap[last'.self])), last'.q)]_vars

\* the values a sample rounded to the q1 grid and then to the q2 grid can be
TwiceRounded(v, q1, q2) ==
  /\ v % q2 = 0
  /\ \E w \in (v - q2)..(v + q2) : w % q1 = 0 /\ v = Round(w, q2) * q2

\* C9 as amended: quantized(q) never raises the one-sampler error, and the
\* object it returns carries Quantized of step q around the receiver's
\* current sampler (the default one if none is attached); a Quantized
\* wrapper of the receiver is kept inside the new one, and a sample from
\* such a domain is rounded to the inner step and then to the outer step.
C9_QuantizedWrapsCurrent ==
  /\ [][last'.op = "quantized" =>
          /\ last'.exc # ErrSamplerSet
          /\ last'.exc = "" =>
               heap'[last'.ret].sampler
                 = Quantized(get_sampler(heap[last'.self]), last'.q)]_vars
  /\ [](/\ last.op = "sample"
        /\ last.out.kind = "value"
        /\ Receiver.sampler.name = "Quantized"
        /\ Receiver.sampler.sampler.name = "Quantized"
        => \A v \in Range(last.out.values) :
             TwiceRounded(v, Receiver.sampler.sampler.q, Receiver.sampler.q))

\* quantized(3) on a domain that carries Quantized(Uniform, 2) has returned
\* a domain with the two wrappers nested
C9_Witness ==
  /\ last.op = "quantized"
  /\ last.exc = ""
  /\ Receiver.sampler.name = "Quantized"
  /\ heap[last.ret].sampler = Quantized(Receiver.sampler, 3)
  /\ Receiver.sampler.q = 2

\* C10: every value sample() returns from a constructed domain with
\* lower <= upper is a valid value of that domain.
C10_SamplesValid ==
  /\ last.op = "sample"
  /\ last.self = 1
  /\ last.out.kind = "value"
  /\ Receiver.cls # "Categorical" => Receiver.lower <= Receiver.upper
  => \A v \in Range(last.out.values) : is_valid(Receiver, v)

====
